---- MODULE Spec2Model ----
(***************************************************************************)
(* Model of the Humidex sensor of custom_components/humidex_sensor:        *)
(* the HumidexSensor entity (sensor.py), its evaluation                    *)
(* _async_update_humidex, the state listener that schedules it, and the    *)
(* pure helpers it calls.                                                  *)
(*                                                                         *)
(* Numbers.  Python floats are held as integers in fixed point: sensor     *)
(* quantities (temperature, humidity, pressure, dew point) at scale Q4     *)
(* (1.0 is 10000), vapour pressures, exponents and the humidex before      *)
(* rounding at scale Q6 (1.0 is 1000000), the published value in tenths    *)
(* (round(x, 1) * 10).  Every intermediate stays below 2^31.  On the       *)
(* readings of this model (temperatures -50, 30, 70 C and 86 F, humidities *)
(* 0, 60, 100, pressures 800, 1200) the published tenths are those of      *)
(* Python's floats, e.g. 39.3 for 30 C and 60 % by the standard method.    *)
(***************************************************************************)
EXTENDS Integers, Sequences, FiniteSets, TLC

(***************************************************************************)
(* Fixed-point arithmetic standing for Python's float operators.           *)
(***************************************************************************)
Q4 == 10000
Q6 == 1000000

Abs(a) == IF a < 0 THEN -a ELSE a

Sgn(a, b) == IF (a < 0) = (b < 0) THEN 1 ELSE -1

\* a * b of two non-negative Q6 numbers, by three base-1000 limbs.
MulAbs(a, b) ==
    LET a2 == a \div 1000000
        a1 == (a \div 1000) % 1000
        a0 == a % 1000
        b2 == b \div 1000000
        b1 == (b \div 1000) % 1000
        b0 == b % 1000
    IN  a2 * b2 * 1000000 + (a2 * b1 + a1 * b2) * 1000
          + (a2 * b0 + a1 * b1 + a0 * b2) + ((a1 * b0 + a0 * b1) \div 1000)

\* float.__mul__ on Q6 numbers.
Mul(a, b) == Sgn(a, b) * MulAbs(Abs(a), Abs(b))

RECURSIVE DivSteps(_, _, _, _)
DivSteps(q, r, b, k) ==
    IF k = 0 THEN q
    ELSE DivSteps(q * 100 + ((r * 100) \div b), (r * 100) % b, b, k - 1)

\* float.__truediv__: a / b of two numbers of one scale (b # 0), as a Q6 number.
Div(a, b) == Sgn(a, b) * DivSteps(Abs(a) \div Abs(b), Abs(a) % Abs(b), Abs(b), 3)

\* e and 1/e as Q6 numbers.
EulerE == 2718282
EulerInv == 367879
\* Number of terms of the exponential series that are summed.
ExpTerms == 12

RECURSIVE ExpSeries(_, _, _)
ExpSeries(f, k, term) ==
    IF k > ExpTerms THEN 0
    ELSE LET t == Mul(term, f) \div k IN t + ExpSeries(f, k + 1, t)

RECURSIVE ExpPow(_, _)
ExpPow(n, base) == IF n = 0 THEN Q6 ELSE Mul(ExpPow(n - 1, base), base)

\* math.exp on a Q6 number: e^n * e^f with n the integer part, f in [0, 1).
Exp(x) ==
    LET n == IF x >= 0 THEN x \div Q6 ELSE -((-x + Q6 - 1) \div Q6)
        f == x - n * Q6
        t == Q6 + ExpSeries(f, 1, Q6)
    IN  IF n >= 0 THEN Mul(ExpPow(n, EulerE), t) ELSE Mul(ExpPow(-n, EulerInv), t)

\* round(x, 1) of a Q6 number, in tenths.
Round1(x) ==
    IF x >= 0 THEN (x + 50000) \div 100000 ELSE -((-x + 50000) \div 100000)

(***************************************************************************)
(* The pure helpers of HumidexSensor.                                      *)
(***************************************************************************)
\* Optional values: None is the empty sequence, Some(v) the sequence <<v>>.
None == <<>>
Some(v) == <<v>>
IsNone(o) == Len(o) = 0
Get(o) == o[1]

\* _get_comfort_level with 20 put in the band below it.
get_comfort_level_20_cold(humidex) ==
    IF humidex <= 200 THEN "cold"
    ELSE IF humidex <= 290 THEN "comfortable"
    ELSE IF humidex <= 390 THEN "slightly_uncomfortable"
    ELSE IF humidex <= 450 THEN "very_uncomfortable"
    ELSE "dangerous"

\* _get_comfort_level with every upper bound exclusive.
get_comfort_level_exclusive(humidex) ==
    IF humidex < 200 THEN "cold"
    ELSE IF humidex < 290 THEN "comfortable"
    ELSE IF humidex < 390 THEN "slightly_uncomfortable"
    ELSE IF humidex < 450 THEN "very_uncomfortable"
    ELSE "dangerous"

\* _get_comfort_level, on a value in tenths.
get_comfort_level(humidex) ==
    IF humidex < 200 THEN "cold"
    ELSE IF humidex <= 290 THEN "comfortable"
    ELSE IF humidex <= 390 THEN "slightly_uncomfortable"
    ELSE IF humidex <= 450 THEN "very_uncomfortable"
    ELSE "dangerous"

\* _calculate_dew_point dividing the humidity deficit by 4.
calculate_dew_point_by_four(temperature, humidity) ==
    temperature - ((100 * Q4 - humidity) \div 4)

\* _calculate_dew_point: temperature - ((100 - humidity) / 5), Q4 numbers.
calculate_dew_point(temperature, humidity) ==
    temperature - ((100 * Q4 - humidity) \div 5)

\* _calculate_vapor_pressure_standard: 6.11 * exp(5417.7530 * ((1/273.15) -
\* (1/(dew_point + 273.15)))), a Q6 number.  The two reciprocals are held
\* times 1000 and the factor as 5.417753, so that both are Q6 numbers.
calculate_vapor_pressure_standard(temperature, humidity) ==
    LET dew_point == calculate_dew_point(temperature, humidity)
        exponent == Mul(5417753,
                        Div(1000 * Q4, 2731500)
                          - Div(1000 * Q4, dew_point + 2731500))
    IN  Mul(6110000, Exp(exponent))

\* _calculate_vapor_pressure_enhanced: Magnus-Tetens saturated pressure,
\* scaled by the humidity and by pressure / 1013.25, a Q6 number.
calculate_vapor_pressure_enhanced(temperature, humidity, pressure) ==
    LET es == Mul(6107800,
                  Exp(Div(Mul(17270000, temperature * 100) \div 100,
                          temperature + 2373000)))
        e == Mul(Div(humidity, 100 * Q4), es)
    IN  Mul(e, Div(pressure, 10132500))

\* _convert_temperature_to_celsius converting Kelvin readings as well.
convert_kelvin_too(temperature, unit) ==
    IF unit = "F"
    THEN Sgn(temperature - 32 * Q4, 1) * ((Abs(temperature - 32 * Q4) * 5) \div 9)
    ELSE IF unit = "K" THEN temperature - 2731500
    ELSE temperature

\* _convert_temperature_to_celsius: Fahrenheit is converted, (F - 32) * 5/9;
\* every other unit is returned unchanged.
convert_temperature_to_celsius(temperature, unit) ==
    IF unit = "F"
    THEN Sgn(temperature - 32 * Q4, 1) * ((Abs(temperature - 32 * Q4) * 5) \div 9)
    ELSE temperature

\* _validate_sensor_values without its pressure check.
validate_ignoring_pressure(temperature, humidity, pressure) ==
    /\ -50 * Q4 <= temperature /\ temperature <= 70 * Q4
    /\ 0 <= humidity /\ humidity <= 100 * Q4

\* _validate_sensor_values with the upper humidity bound excluded.
validate_strict_humidity(temperature, humidity, pressure) ==
    /\ -50 * Q4 <= temperature /\ temperature <= 70 * Q4
    /\ 0 <= humidity /\ humidity < 100 * Q4
    /\ (IsNone(pressure) \/ (800 * Q4 <= Get(pressure) /\ Get(pressure) <= 1200 * Q4))

\* _validate_sensor_values; pressure is optional.
validate_sensor_values(temperature, humidity, pressure) ==
    IF ~(-50 * Q4 <= temperature /\ temperature <= 70 * Q4) THEN FALSE
    ELSE IF ~(0 <= humidity /\ humidity <= 100 * Q4) THEN FALSE
    ELSE IF ~IsNone(pressure)
            /\ ~(800 * Q4 <= Get(pressure) /\ Get(pressure) <= 1200 * Q4) THEN FALSE
    ELSE TRUE

\* Lines 344-348: humidex = temperature + 0.5555 * (vapor_pressure - 10),
\* rounded to one decimal; the result is in tenths.
FinalHumidex(temperature, vapor_pressure) ==
    Round1(temperature * 100 + Mul(555500, vapor_pressure - 10 * Q6))

(***************************************************************************)
(* Source readings (hass.states).  A reading is what hass.states.get       *)
(* returns: no State object at all (present = FALSE, Python's None), or a  *)
(* State whose state string is "unavailable", "unknown", a non-numeric     *)
(* text, or the text of a finite number ("num", its value in whole units), *)
(* and whose unit_of_measurement attribute is unit ("" when it has none).  *)
(***************************************************************************)
Missing == [present |-> FALSE, state |-> "", value |-> 0, unit |-> ""]
Text(s) == [present |-> TRUE, state |-> s, value |-> 0, unit |-> ""]
Num(v, u) == [present |-> TRUE, state |-> "num", value |-> v, unit |-> u]

TempReadings ==
    {Missing, Text("unavailable"), Text("unknown"), Text("abc")}
      \cup {Num(v, "C") : v \in {-51, -50, 30, 70, 71}}
      \cup {Num(86, "F")}
HumidityReadings ==
    {Missing, Text("unavailable"), Text("unknown"), Text("abc")}
      \cup {Num(v, "%") : v \in {-1, 0, 60, 100, 101}}
PressureReadings ==
    {Missing, Text("unavailable"), Text("unknown"), Text("abc")}
      \cup {Num(v, "hPa") : v \in {799, 800, 1200, 1201}}

Sources == {"temp", "hum", "pres"}
ReadingsOf(id) ==
    IF id = "temp" THEN TempReadings
    ELSE IF id = "hum" THEN HumidityReadings
    ELSE PressureReadings

\* The readings when the entity is constructed: no source entity exists yet
\* (the host is starting), or every source reports an ordinary value.
NoEntities == [id \in Sources |-> Missing]
Ordinary ==
    [id \in Sources |->
        IF id = "temp" THEN Num(30, "C")
        ELSE IF id = "hum" THEN Num(60, "%")
        ELSE Num(1200, "hPa")]

\* Number of changes of a source reading the host makes in a run.
MaxEvents == 2
\* The steps of an evaluation at which an unexpected exception is injected.
Faults == {"none", "fetch", "parse", "convert", "validate", "compute"}

VARIABLES
    states,              \* hass.states: source id -> reading
    binding,             \* _temp_entity_id, _humidity_entity_id, _pressure_entity_id
    attr_native_value,   \* _attr_native_value: None or the humidex in tenths
    attr_available,      \* _attr_available
    phase,               \* "constructed", "added" (async_added_to_hass ran), "removed"
    subscribed,          \* the state-change subscription is in place
    pending,             \* tasks created by the listener that have not started
    inflight,            \* evaluations that fetched their states and have not finished
    fault,               \* step at which the latest evaluation raises ("none": nowhere)
    temp_state,          \* locals of the latest evaluation (lines 266-270)
    humidity_state,
    pressure_state,
    changes,             \* changes of a source reading the host has made
    delivered,           \* change events handed to the listener
    evaluations,         \* evaluations that have completed
    outcome,             \* how the latest evaluation ended
    calculation_method,  \* local calculation_method of the latest evaluation
    propagated,          \* an exception left _async_update_humidex
    last_error,          \* outcome of the latest evaluation that ended unavailable
    same_inputs,         \* the evaluation under way fetched the states the one before it fetched
    writes,              \* async_write_ha_state calls of the latest evaluation
    entry_data,          \* config_entry.data: the configuration the user step accepted
    entry_options,       \* config_entry.options: the configuration the options step accepted
    errors,              \* errors["base"] of the latest configuration step
    call,                \* a function applied on its own: its name and arguments
    ret,                 \* what that function returned
    translations,        \* _translations: the cached table, None until it is fetched
    hass_translations,   \* what translation.async_get_translations returns now
    fetches              \* calls of translation.async_get_translations

vars == <<states, binding, attr_native_value, attr_available, phase, subscribed,
          pending, inflight, fault, temp_state, humidity_state, pressure_state,
          changes, delivered, evaluations, outcome, calculation_method, propagated,
          last_error, same_inputs, writes, entry_data, entry_options, errors,
          call, ret, translations, hass_translations, fetches>>

\* The configuration flow's variables and those of a function applied on its own.
flow_vars == <<entry_data, entry_options, errors>>
call_vars == <<call, ret>>
locale_vars == <<translations, hass_translations, fetches>>

(***************************************************************************)
(* _async_update_humidex, lines 272-363, as a function of its locals.      *)
(***************************************************************************)
\* The tests of lines 287-312 with "unknown" forgotten.
UnavailableStatesShort == {"unavailable"}

\* The state strings that lines 287, 294, 302 and 312 test for.
UnavailableStates == {"unavailable", "unknown"}

\* Lines 272 and 279: hass.states.get returned None.
IsMissing(st) == ~st.present

\* float(state.state) succeeds on numeric text only.
IsNumeric(st) == st.state = "num"
\* float(state.state), as a Q4 number.
ParseFloat(st) == st.value * Q4

\* Lines 301-305: a bound pressure source in state unavailable/unknown is
\* dropped (pressure_state = None).
DropPressure(ps) ==
    IF binding.pressure_id # "" /\ ps.present /\ ps.state \in UnavailableStates
    THEN Missing ELSE ps

\* Line 312 skipping a pressure state that is not numeric.
PressureParsedIfNumeric(ps) ==
    ps.present /\ ps.state \notin UnavailableStates /\ IsNumeric(ps)

\* Line 312 without its test that there is a pressure state.
PressureParsedNoNoneCheck(ps) == ps.state \notin UnavailableStates

\* Line 312: the pressure state is parsed when there is one.
PressureParsed(ps) == ps.present /\ ps.state \notin UnavailableStates

\* Lines 308-314: one of the float() calls raises ValueError.
NumericCheckFails(ts, hs, ps) ==
    \/ ~IsNumeric(ts)
    \/ ~IsNumeric(hs)
    \/ (PressureParsed(ps) /\ ~IsNumeric(ps))

Result(v, a, o, m, p) ==
    [value |-> v, available |-> a, outcome |-> o, method |-> m, propagated |-> p]

\* An early return that leaves the value of the evaluation before it.
UnavailableKeepingValue(o) == Result(attr_native_value, FALSE, o, "none", FALSE)

\* The early returns: _attr_native_value = None, _attr_available = False.
Unavailable(o) == Result(None, FALSE, o, "none", FALSE)

\* The evaluation without its outer handler: the exception leaves it.
UncaughtException == Result(None, FALSE, "UnexpectedFault", "none", TRUE)

\* Lines 357-360: the handler of the outer try.
CaughtException == Result(None, FALSE, "UnexpectedFault", "none", FALSE)

\* Lines 334-349 merging the new humidex with the value published before
\* it instead of overwriting it.
CalculateMerging(temperature, humidity, pressure) ==
    LET vapor_pressure ==
            IF ~IsNone(pressure)
            THEN calculate_vapor_pressure_enhanced(temperature, humidity, Get(pressure))
            ELSE calculate_vapor_pressure_standard(temperature, humidity)
        humidex == FinalHumidex(temperature, vapor_pressure)
        merged == IF IsNone(attr_native_value) THEN humidex
                  ELSE (Get(attr_native_value) + humidex) \div 2
    IN  Result(Some(merged), TRUE, "Published",
               IF ~IsNone(pressure) THEN "enhanced" ELSE "standard", FALSE)

\* Lines 334-349.
Calculate(temperature, humidity, pressure) ==
    IF ~IsNone(pressure)
    THEN Result(Some(FinalHumidex(temperature,
                    calculate_vapor_pressure_enhanced(temperature, humidity,
                                                      Get(pressure)))),
                TRUE, "Published", "enhanced", FALSE)
    ELSE Result(Some(FinalHumidex(temperature,
                    calculate_vapor_pressure_standard(temperature, humidity))),
                TRUE, "Published", "standard", FALSE)

\* Lines 272-360 on the fetched states ts, hs, ps; flt is the step at which an
\* unexpected exception is raised, if that step is reached.
update_humidex(ts, hs, ps, flt) ==
    IF flt = "fetch" THEN CaughtException
    ELSE IF IsMissing(ts) THEN Unavailable("MissingSource")
    ELSE IF IsMissing(hs) THEN Unavailable("MissingSource")
    ELSE IF ts.state \in UnavailableStates THEN Unavailable("SourceUnavailable")
    ELSE IF hs.state \in UnavailableStates THEN Unavailable("SourceUnavailable")
    ELSE LET ps1 == DropPressure(ps) IN
    IF flt = "parse" THEN CaughtException
    ELSE IF NumericCheckFails(ts, hs, ps1) THEN Unavailable("NonNumericValue")
    ELSE LET temperature_raw == ParseFloat(ts)
             humidity == ParseFloat(hs)
             pressure == IF PressureParsed(ps1) THEN Some(ParseFloat(ps1)) ELSE None
         IN
    IF flt = "convert" THEN CaughtException
    ELSE LET temp_unit == IF ts.unit = "" THEN "C" ELSE ts.unit
             temperature == convert_temperature_to_celsius(temperature_raw, temp_unit)
         IN
    IF flt = "validate" THEN CaughtException
    ELSE IF ~validate_sensor_values(temperature, humidity, pressure)
         THEN Unavailable("OutOfRange")
    ELSE IF flt = "compute" THEN CaughtException
    ELSE Calculate(temperature, humidity, pressure)

\* The outcomes of the early returns of lines 272-332.
EarlyReturns == {"MissingSource", "SourceUnavailable", "NonNumericValue", "OutOfRange"}

\* The write of line 363 placed in a finally clause: it also runs after the
\* write of an early return.
state_writes_in_finally(r) == IF r.outcome \in EarlyReturns THEN 2 ELSE 1

\* The async_write_ha_state calls of one evaluation: an early return writes
\* and returns (lines 276, 283, 291, 298, 320, 331); the success path and the
\* handler of the outer try go on to the write of line 363; an exception
\* that leaves the method reaches no write.
state_writes(r) ==
    IF r.propagated THEN 0
    ELSE IF r.outcome \in EarlyReturns THEN 1
    ELSE 1

\* Lines 137-143: the English descriptions.
fallback_descriptions ==
    ("cold" :> "Cold") @@ ("comfortable" :> "Comfortable")
      @@ ("slightly_uncomfortable" :> "Slightly uncomfortable")
      @@ ("very_uncomfortable" :> "Very uncomfortable")
      @@ ("dangerous" :> "Dangerous")

\* A translation table holds, for some comfort levels, the string under the
\* key of line 130; this one holds none.
NoTranslations == [level \in {} |-> ""]

\* The tables the host can return: none, one entry, one empty entry, all five.
Catalogs ==
    {NoTranslations,
     ("very_uncomfortable" :> "Tres inconfortable"),
     ("very_uncomfortable" :> "") @@ ("cold" :> "Froid"),
     ("cold" :> "Froid") @@ ("comfortable" :> "Confortable")
       @@ ("slightly_uncomfortable" :> "Legerement inconfortable")
       @@ ("very_uncomfortable" :> "Tres inconfortable")
       @@ ("dangerous" :> "Dangereux")}

\* _get_comfort_description_sync returning whatever entry the table holds,
\* an empty one too.
description_without_empty_test(humidex) ==
    LET comfort_level == get_comfort_level(humidex)
        table == IF IsNone(translations) THEN NoTranslations ELSE Get(translations)
    IN  IF comfort_level \in DOMAIN table THEN table[comfort_level]
        ELSE fallback_descriptions[comfort_level]

\* _get_comfort_description_sync: the cached translation when the table is
\* not empty and holds a non-empty string for the level, else the English
\* description, "Unknown" for a level outside the five.
get_comfort_description_sync(humidex) ==
    LET comfort_level == get_comfort_level(humidex)
        table == IF IsNone(translations) THEN NoTranslations ELSE Get(translations)
        translated == IF DOMAIN table # {} /\ comfort_level \in DOMAIN table
                      THEN table[comfort_level] ELSE ""
    IN  IF translated # "" THEN translated
        ELSE IF comfort_level \in DOMAIN fallback_descriptions
             THEN fallback_descriptions[comfort_level]
             ELSE "Unknown"

\* _get_translations: the table is fetched when none is cached.
get_translations ==
    /\ translations' = IF IsNone(translations) THEN Some(hass_translations)
                       ELSE translations
    /\ fetches' = IF IsNone(translations) THEN fetches + 1 ELSE fetches

\* extra_state_attributes: the attributes published with the state.
extra_state_attributes ==
    [calculation_method |->
         IF binding.pressure_id # "" THEN "enhanced" ELSE "standard",
     comfort_level |->
         IF ~IsNone(attr_native_value)
         THEN Some(get_comfort_level(Get(attr_native_value))) ELSE None,
     comfort_description |->
         IF ~IsNone(attr_native_value)
         THEN Some(get_comfort_description_sync(Get(attr_native_value))) ELSE None,
     keys |->
         {"temperature_entity", "humidity_entity", "calculation_method"}
           \cup (IF binding.pressure_id # "" THEN {"pressure_entity"} ELSE {})
           \cup (IF ~IsNone(attr_native_value)
                 THEN {"comfort_level", "comfort_description"} ELSE {})]

(***************************************************************************)
(* The entity's life: construction, async_added_to_hass, change events,    *)
(* the tasks they create, removal.                                         *)
(***************************************************************************)
\* An evaluation that yields to the event loop between fetching and computing.
LoopIdleWithAwait == TRUE

\* _async_update_humidex has no await and the listener is a @callback: both
\* run on the event loop, which runs nothing else until they return.
LoopIdle == inflight = 0

\* A listener that ignores events while the entity is unavailable.
listener_when_available(tasks) == IF attr_available THEN tasks + 1 ELSE tasks

\* A listener that creates no task while one is waiting.
listener_coalescing(tasks) == IF tasks > 0 THEN tasks ELSE tasks + 1

\* _async_sensor_state_listener: one task per event.
async_sensor_state_listener(tasks) == tasks + 1

\* Lines 241-243 without the pressure id.
entities_to_track_without_pressure == {binding.temperature_id, binding.humidity_id}

\* Lines 241-243: the ids the subscription tracks.
entities_to_track ==
    {binding.temperature_id, binding.humidity_id}
      \cup (IF binding.pressure_id # "" THEN {binding.pressure_id} ELSE {})

\* Lines 266-270: the states are fetched.
Fetch(flt) ==
    /\ fault' = flt
    /\ temp_state' = IF flt = "fetch" THEN Missing ELSE states[binding.temperature_id]
    /\ humidity_state' = IF flt = "fetch" THEN Missing ELSE states[binding.humidity_id]
    /\ pressure_state' = IF flt # "fetch" /\ binding.pressure_id # ""
                         THEN states[binding.pressure_id] ELSE Missing
    /\ same_inputs' = (<<temp_state', humidity_state', pressure_state'>>
                         = <<temp_state, humidity_state, pressure_state>>)
    /\ inflight' = inflight + 1

\* HumidexSensor.__init__ and the variables that count what happens after it.
Constructed ==
    /\ attr_native_value = None
    /\ attr_available = TRUE
    /\ subscribed = FALSE
    /\ pending = 0
    /\ inflight = 0
    /\ fault = "none"
    /\ temp_state = Missing
    /\ humidity_state = Missing
    /\ pressure_state = Missing
    /\ changes = 0
    /\ delivered = 0
    /\ evaluations = 0
    /\ outcome = "none"
    /\ calculation_method = "none"
    /\ propagated = FALSE
    /\ last_error = "none"
    /\ same_inputs = FALSE
    /\ writes = 0
    /\ translations = None
    /\ fetches = 0

\* The configuration keys of const.py (ATTR_TEMPERATURE, ATTR_HUMIDITY,
\* ATTR_PRESSURE); "" is a pressure entity that was not given.
Config(t, h, p) ==
    [temperature_entity |-> t, humidity_entity |-> h, pressure_entity |-> p]

\* async_setup_entry: the sensor is constructed on the ids of config_entry.data.
setup_entry(config) ==
    [temperature_id |-> config.temperature_entity,
     humidity_id |-> config.humidity_entity,
     pressure_id |-> config.pressure_entity]

NoCall == [fn |-> "none"]

Init ==
    /\ states \in {NoEntities, Ordinary}
    /\ entry_data \in {Some(Config("temp", "hum", p)) : p \in {"pres", ""}}
    /\ entry_options = None
    /\ errors = ""
    /\ binding = setup_entry(Get(entry_data))
    /\ phase = "constructed"
    /\ Constructed
    /\ call = NoCall
    /\ ret = None
    /\ hass_translations = NoTranslations

\* async_added_to_hass: the translations are loaded, the subscription is
\* made, then the initial evaluation starts.
AddedToHass(flt) ==
    /\ phase = "constructed"
    /\ phase' = "added"
    /\ subscribed' = TRUE
    /\ get_translations
    /\ Fetch(flt)
    /\ UNCHANGED <<states, binding, attr_native_value, attr_available, pending,
                   changes, delivered, evaluations, outcome, calculation_method,
                   propagated, last_error, writes, flow_vars, call_vars,
                   hass_translations>>

\* The host changes the reading of one source; the change event of a tracked
\* source goes to the listener.
HostChange ==
    /\ LoopIdle
    /\ phase \in {"added", "removed"}
    /\ changes < MaxEvents
    /\ changes' = changes + 1
    /\ \E id \in Sources : \E r \in ReadingsOf(id) :
         /\ r # states[id]
         /\ states' = [states EXCEPT ![id] = r]
         /\ IF subscribed /\ id \in entities_to_track
            THEN /\ pending' = async_sensor_state_listener(pending)
                 /\ delivered' = delivered + 1
            ELSE UNCHANGED <<pending, delivered>>
    /\ UNCHANGED <<binding, attr_native_value, attr_available, phase, subscribed,
                   inflight, fault, temp_state, humidity_state, pressure_state,
                   evaluations, outcome, calculation_method, propagated, last_error,
                   same_inputs, writes, flow_vars, call_vars, locale_vars>>

\* The event loop starts a task the listener created.
StartTask(flt) ==
    /\ LoopIdle
    /\ pending > 0
    /\ pending' = pending - 1
    /\ Fetch(flt)
    /\ UNCHANGED <<states, binding, attr_native_value, attr_available, phase,
                   subscribed, changes, delivered, evaluations, outcome,
                   calculation_method, propagated, last_error, writes, flow_vars,
                   call_vars, locale_vars>>

\* The evaluation with line 305 clearing the bound pressure id instead of
\* the local pressure_state.
FinishEvaluationUnbinding ==
    /\ inflight > 0
    /\ LET r == update_humidex(temp_state, humidity_state, pressure_state, fault) IN
         /\ attr_native_value' = IF r.propagated THEN attr_native_value ELSE r.value
         /\ attr_available' = IF r.propagated THEN attr_available ELSE r.available
         /\ outcome' = r.outcome
         /\ calculation_method' = r.method
         /\ propagated' = r.propagated
         /\ last_error' = IF r.available THEN last_error ELSE r.outcome
         /\ writes' = state_writes(r)
    /\ binding' = IF DropPressure(pressure_state) # pressure_state
                  THEN [binding EXCEPT !.pressure_id = ""] ELSE binding
    /\ inflight' = inflight - 1
    /\ evaluations' = evaluations + 1
    /\ UNCHANGED <<states, phase, subscribed, pending, fault, temp_state,
                   humidity_state, pressure_state, changes, delivered, same_inputs,
                   flow_vars, call_vars, locale_vars>>

\* Lines 272-363: the evaluation runs to its end and writes the state.
FinishEvaluation ==
    /\ inflight > 0
    /\ LET r == update_humidex(temp_state, humidity_state, pressure_state, fault) IN
         /\ attr_native_value' = IF r.propagated THEN attr_native_value ELSE r.value
         /\ attr_available' = IF r.propagated THEN attr_available ELSE r.available
         /\ outcome' = r.outcome
         /\ calculation_method' = r.method
         /\ propagated' = r.propagated
         /\ last_error' = IF r.available THEN last_error ELSE r.outcome
         /\ writes' = state_writes(r)
    /\ inflight' = inflight - 1
    /\ evaluations' = evaluations + 1
    /\ UNCHANGED <<states, binding, phase, subscribed, pending, fault, temp_state,
                   humidity_state, pressure_state, changes, delivered, same_inputs,
                   flow_vars, call_vars, locale_vars>>

\* The entity is removed: async_on_remove cancels the subscription.
Remove ==
    /\ LoopIdle
    /\ phase = "added"
    /\ phase' = "removed"
    /\ subscribed' = FALSE
    /\ UNCHANGED <<states, binding, attr_native_value, attr_available, pending,
                   inflight, fault, temp_state, humidity_state, pressure_state,
                   changes, delivered, evaluations, outcome, calculation_method,
                   propagated, last_error, same_inputs, writes, flow_vars, call_vars, locale_vars>>

Next ==
    \/ AddedToHass("none")
    \/ HostChange
    \/ StartTask("none")
    \/ FinishEvaluation
    \/ Remove

Spec == Init /\ [][Next]_vars

\* The same program with an unexpected exception raised at any one step of
\* an evaluation.
NextFault ==
    \/ \E flt \in Faults : AddedToHass(flt)
    \/ HostChange
    \/ \E flt \in Faults : StartTask(flt)
    \/ FinishEvaluation
    \/ Remove

SpecFault == Init /\ [][NextFault]_vars

\* The same program on a host with any of the translation tables, which the
\* host may replace (another language, a reloaded catalog) at any time.
InitLocale ==
    /\ states = Ordinary
    /\ entry_data \in {Some(Config("temp", "hum", p)) : p \in {"pres", ""}}
    /\ entry_options = None
    /\ errors = ""
    /\ binding = setup_entry(Get(entry_data))
    /\ phase = "constructed"
    /\ Constructed
    /\ call = NoCall
    /\ ret = None
    /\ hass_translations \in Catalogs

HostCatalogChange ==
    /\ LoopIdle
    /\ changes < MaxEvents
    /\ changes' = changes + 1
    /\ \E table \in Catalogs :
         table # hass_translations /\ hass_translations' = table
    /\ UNCHANGED <<states, binding, attr_native_value, attr_available, phase,
                   subscribed, pending, inflight, fault, temp_state, humidity_state,
                   pressure_state, delivered, evaluations, outcome,
                   calculation_method, propagated, last_error, same_inputs, writes,
                   flow_vars, call_vars, translations, fetches>>

NextLocale ==
    \/ AddedToHass("none")
    \/ HostChange
    \/ HostCatalogChange
    \/ StartTask("none")
    \/ FinishEvaluation
    \/ Remove

SpecLocale == InitLocale /\ [][NextLocale]_vars

(***************************************************************************)
(* The configuration flow of config_flow.py: the user step creates the     *)
(* entry, async_setup_entry constructs the sensor on it, the options step  *)
(* stores new ids in the entry's options.                                  *)
(***************************************************************************)
\* The readings a source can have while the flow runs.
ConfigReadings(id) == {Missing, Text("unavailable"), Text("abc"), Ordinary[id]}

ConfigStates ==
    {f \in [Sources -> UNION {ConfigReadings(id) : id \in Sources}] :
       \A id \in Sources : f[id] \in ConfigReadings(id)}

\* What the user submits: any entity as temperature and humidity, the
\* pressure entity or none.
ConfigInputs ==
    {Config(t, h, p) : t \in Sources, h \in Sources, p \in {"pres", ""}}

\* No sensor has been constructed yet.
NoBinding == setup_entry(Config("", "", ""))

\* _validate_input: vol.Invalid is raised unless this holds.
validate_input(user_input) ==
    LET temp_state_ == states[user_input.temperature_entity]
        humidity_state_ == states[user_input.humidity_entity]
        pressure_entity == user_input.pressure_entity
    IN  /\ ~IsMissing(temp_state_)
        /\ ~IsMissing(humidity_state_)
        /\ pressure_entity # "" =>
             /\ ~IsMissing(states[pressure_entity])
             /\ IsNumeric(states[pressure_entity])
        /\ IsNumeric(temp_state_)
        /\ IsNumeric(humidity_state_)

\* OptionsFlowHandler.async_step_init, lines 147-150: the entities exist.
options_entities_exist(user_input) ==
    /\ ~IsMissing(states[user_input.temperature_entity])
    /\ ~IsMissing(states[user_input.humidity_entity])
    /\ user_input.pressure_entity # "" =>
         ~IsMissing(states[user_input.pressure_entity])

InitConfig ==
    /\ states \in ConfigStates
    /\ entry_data = None
    /\ entry_options = None
    /\ errors = ""
    /\ binding = NoBinding
    /\ phase = "unconfigured"
    /\ Constructed
    /\ call = NoCall
    /\ ret = None
    /\ hass_translations = NoTranslations

\* HumidexConfigFlow.async_step_user with a user_input.
async_step_user(user_input) ==
    /\ IsNone(entry_data)
    /\ IF validate_input(user_input)
       THEN entry_data' = Some(user_input) /\ errors' = ""
       ELSE errors' = "invalid_entity" /\ UNCHANGED entry_data
    /\ UNCHANGED <<states, binding, attr_native_value, attr_available, phase,
                   subscribed, pending, inflight, fault, temp_state, humidity_state,
                   pressure_state, changes, delivered, evaluations, outcome,
                   calculation_method, propagated, last_error, same_inputs, writes,
                   entry_options, call_vars, locale_vars>>

\* async_setup_entry: the sensor is constructed from config_entry.data.
async_setup_entry ==
    /\ ~IsNone(entry_data)
    /\ phase = "unconfigured"
    /\ binding' = setup_entry(Get(entry_data))
    /\ phase' = "constructed"
    /\ UNCHANGED <<states, attr_native_value, attr_available, subscribed, pending,
                   inflight, fault, temp_state, humidity_state, pressure_state,
                   changes, delivered, evaluations, outcome, calculation_method,
                   propagated, last_error, same_inputs, writes, flow_vars,
                   call_vars, locale_vars>>

\* OptionsFlowHandler.async_step_init with a user_input.
async_step_init(user_input) ==
    /\ ~IsNone(entry_data)
    /\ IF options_entities_exist(user_input)
       THEN entry_options' = Some(user_input) /\ errors' = ""
       ELSE errors' = "invalid_entity" /\ UNCHANGED entry_options
    /\ UNCHANGED <<states, binding, attr_native_value, attr_available, phase,
                   subscribed, pending, inflight, fault, temp_state, humidity_state,
                   pressure_state, changes, delivered, evaluations, outcome,
                   calculation_method, propagated, last_error, same_inputs, writes,
                   entry_data, call_vars, locale_vars>>

NextConfig ==
    \/ \E user_input \in ConfigInputs : async_step_user(user_input)
    \/ async_setup_entry
    \/ \E user_input \in ConfigInputs : async_step_init(user_input)

SpecConfig == InitConfig /\ [][NextConfig]_vars

(***************************************************************************)
(* The pure functions applied on their own to arguments from bounded sets. *)
(***************************************************************************)
\* Humidex values, in tenths, from -MaxTenths to MaxTenths.
MaxTenths == 600

\* Temperatures handed to the conversion and the units they are declared in
\* ("" is no unit_of_measurement attribute).
ConvertInputs == {-58, -51, -50, -40, 0, 30, 32, 70, 71, 86, 100, 158, 159, 212}
Units == {"C", "F", "K", ""}

Calls ==
    {[fn |-> "get_comfort_level", humidex |-> h] : h \in -MaxTenths..MaxTenths}
      \cup {[fn |-> "convert_temperature_to_celsius", temperature |-> v, unit |-> u] :
              v \in ConvertInputs, u \in Units}
      \cup {[fn |-> "update_humidex", ts |-> Num(v, u), hs |-> Num(60, "%"),
             ps |-> Missing] : v \in ConvertInputs, u \in Units}

InitCall ==
    /\ states = Ordinary
    /\ entry_data = Some(Config("temp", "hum", ""))
    /\ entry_options = None
    /\ errors = ""
    /\ binding = setup_entry(Get(entry_data))
    /\ phase = "constructed"
    /\ Constructed
    /\ call \in Calls
    /\ ret = None
    /\ hass_translations = NoTranslations

Returns(v) ==
    /\ IsNone(ret)
    /\ ret' = Some(v)
    /\ UNCHANGED <<states, binding, attr_native_value, attr_available, phase,
                   subscribed, pending, inflight, fault, temp_state, humidity_state,
                   pressure_state, changes, delivered, evaluations, outcome,
                   calculation_method, propagated, last_error, same_inputs, writes,
                   flow_vars, call, locale_vars>>

CallGetComfortLevel ==
    /\ call.fn = "get_comfort_level"
    /\ Returns(get_comfort_level(call.humidex))

CallConvertTemperature ==
    /\ call.fn = "convert_temperature_to_celsius"
    /\ Returns(convert_temperature_to_celsius(call.temperature * Q4, call.unit))

CallUpdateHumidex ==
    /\ call.fn = "update_humidex"
    /\ Returns(update_humidex(call.ts, call.hs, call.ps, "none"))

NextCall ==
    \/ CallGetComfortLevel
    \/ CallConvertTemperature
    \/ CallUpdateHumidex

SpecCall == InitCall /\ [][NextCall]_vars

(***************************************************************************)
(* Properties.  They speak of the readings in the words of the             *)
(* specification, not through the operators above.                         *)
(***************************************************************************)
\* An evaluation has completed and none is under way: the locals, outcome
\* and calculation_method are those of the evaluation that completed last.
Done == evaluations > 0 /\ inflight = 0

Bound == binding.pressure_id # ""

\* The reading is there, not unavailable/unknown, and numeric.
Usable(st) ==
    st.present /\ st.state \notin {"unavailable", "unknown"} /\ st.state = "num"

\* The temperature reading, converted to Celsius, lies in [-50, 70]
\* (compared exactly: (F - 32) * 5 against the bounds times 9).
TempInRange(st) ==
    IF st.unit = "F"
    THEN -50 * 9 <= (st.value - 32) * 5 /\ (st.value - 32) * 5 <= 70 * 9
    ELSE -50 <= st.value /\ st.value <= 70

HumidityInRange(st) == 0 <= st.value /\ st.value <= 100

PressureInRange(st) == 800 <= st.value /\ st.value <= 1200

\* Temperature and humidity were present, numeric and in range.
TempHumGood ==
    /\ Usable(temp_state) /\ Usable(humidity_state)
    /\ TempInRange(temp_state) /\ HumidityInRange(humidity_state)

\* The fetched pressure state is one that is parsed: there is one and it is
\* neither unavailable nor unknown.
PressureContributes ==
    pressure_state.present /\ pressure_state.state \notin {"unavailable", "unknown"}

\* The value the Standard method gives for the fetched temperature and humidity.
StandardValue ==
    LET t == convert_temperature_to_celsius(temp_state.value * Q4, temp_state.unit)
    IN  FinalHumidex(t, calculate_vapor_pressure_standard(t, humidity_state.value * Q4))

\* C1 as stated: after an evaluation, available is true if and only if the
\* temperature and humidity readings were present, numeric and in range.
C1_AvailableIffTempHumGood == Done => (attr_available <=> TempHumGood)

\* C1 amended: after an evaluation, available is true if and only if the
\* temperature and humidity readings were present, numeric and in range and
\* the pressure reading, when one is bound and it is in a state other than
\* unavailable/unknown, is numeric and within [800, 1200].
C1_AvailableIffAllGood ==
    Done =>
      (attr_available <=>
         /\ TempHumGood
         /\ (PressureContributes =>
               pressure_state.state = "num" /\ PressureInRange(pressure_state)))

C1_Witness ==
    /\ Done /\ TempHumGood /\ ~attr_available
    /\ pressure_state = Num(1201, "hPa")

\* C2: the published calculation method is "enhanced" if and only if the
\* latest successful computation used the pressure-corrected formula.
C2_MethodIffPressureUsed ==
    Done /\ outcome = "Published" =>
      (extra_state_attributes.calculation_method = "enhanced"
         <=> calculation_method = "enhanced")

\* C3 as stated: a bound pressure source whose reading is not numeric, with
\* temperature and humidity good, gives an available result computed with
\* the Standard method.
C3_NonNumericPressureDegrades ==
    Done /\ Bound /\ TempHumGood /\ pressure_state = Text("abc") =>
      attr_available /\ calculation_method = "standard"

\* C3 amended: a bound pressure source whose reading is not numeric, with
\* temperature and humidity good, ends the evaluation unavailable as a
\* non-numeric value, with no humidex.
C3_NonNumericPressureFails ==
    Done /\ Bound /\ TempHumGood /\ pressure_state = Text("abc") =>
      ~attr_available /\ IsNone(attr_native_value) /\ outcome = "NonNumericValue"

C3_Witness ==
    Done /\ Bound /\ TempHumGood /\ pressure_state = Text("abc") /\ ~attr_available

\* C4: a bound pressure source in state unavailable or unknown, with
\* temperature and humidity good, ends Published with available = true and
\* the value of the Standard method.
C4_UnavailablePressureDegrades ==
    /\ Done /\ Bound /\ TempHumGood
    /\ pressure_state \in {Text("unavailable"), Text("unknown")}
    => /\ attr_available
       /\ outcome = "Published"
       /\ calculation_method = "standard"
       /\ attr_native_value = Some(StandardValue)

C4_Witness ==
    /\ Done /\ Bound /\ TempHumGood /\ pressure_state = Text("unknown")
    /\ attr_available /\ attr_native_value = Some(393)

\* C5 as stated: a bound source id, temperature, humidity or pressure, with
\* no reading at all ends the evaluation unavailable.
C5_MissingBoundSourceUnavailable ==
    /\ Done
    /\ \/ ~temp_state.present
       \/ ~humidity_state.present
       \/ (Bound /\ ~pressure_state.present)
    => ~attr_available

\* C5 amended: a temperature or humidity id with no reading at all ends the
\* evaluation unavailable as a missing source; a bound pressure id with no
\* reading does not: with temperature and humidity good the evaluation
\* publishes the value of the Standard method.
C5_MissingRequiredSourceUnavailable ==
    /\ (Done /\ (~temp_state.present \/ ~humidity_state.present) =>
          ~attr_available /\ outcome = "MissingSource")
    /\ (Done /\ Bound /\ ~pressure_state.present /\ TempHumGood =>
          attr_available /\ attr_native_value = Some(StandardValue))

C5_Witness ==
    /\ Done /\ Bound /\ ~pressure_state.present /\ states["pres"] = Missing
    /\ TempHumGood /\ attr_available

\* C6: evaluations are serialized: at most one is under way, and the
\* result an evaluation writes is the pipeline's result for the readings of
\* all bound sources as they are at one instant, that of its completion.
C6_Serialized ==
    [][/\ inflight' <= 1
       /\ (inflight > 0 /\ inflight' < inflight =>
             LET r == update_humidex(states["temp"], states["hum"],
                                     IF Bound THEN states["pres"] ELSE Missing,
                                     "none")
             IN  attr_native_value' = r.value /\ attr_available' = r.available)]_vars

C6_Witness ==
    /\ inflight = 1 /\ pending = 1 /\ delivered = 2
    /\ states["temp"] # Ordinary["temp"] /\ states["hum"] # Ordinary["hum"]
    /\ temp_state = states["temp"] /\ humidity_state = states["hum"]

\* C7: with temperature and humidity numeric, the evaluation is rejected
\* exactly when the temperature in Celsius is outside [-50, 70], the
\* humidity outside [0, 100] or a contributing pressure outside [800, 1200];
\* the six bounds are accepted and a humidity of 101 is rejected.
C7_RangeValidation ==
    /\ Done /\ Usable(temp_state) /\ Usable(humidity_state)
    /\ (PressureContributes => pressure_state.state = "num")
    => /\ ~attr_available <=>
            \/ ~TempInRange(temp_state)
            \/ ~HumidityInRange(humidity_state)
            \/ (PressureContributes /\ ~PressureInRange(pressure_state))
       /\ (humidity_state.value = 101 => ~attr_available)
       /\ (/\ temp_state.value \in {-50, 70} /\ temp_state.unit = "C"
           /\ humidity_state.value \in {0, 100}
           /\ (PressureContributes => pressure_state.value \in {800, 1200})
           => attr_available)

C7_Witness ==
    /\ Done /\ temp_state = Num(70, "C") /\ humidity_state = Num(100, "%")
    /\ pressure_state = Num(1200, "hPa") /\ attr_available

\* C8: no error outcome is fatal: while the entity is added it stays
\* subscribed, every change of a bound source creates a task, and an
\* evaluation that follows an error outcome, finds all its readings
\* present, numeric and in range and raises no exception publishes an
\* available result.
ErrorOutcomes ==
    {"MissingSource", "SourceUnavailable", "NonNumericValue", "OutOfRange",
     "UnexpectedFault"}

BoundIds == {"temp", "hum"} \cup (IF Bound THEN {"pres"} ELSE {})

C8_NoErrorIsFatal ==
    [][/\ (phase' = "added" => subscribed')
       /\ (/\ outcome \in ErrorOutcomes /\ phase = "added"
           /\ \E id \in BoundIds : states'[id] # states[id]
           => pending' = pending + 1)
       /\ (/\ outcome \in ErrorOutcomes
           /\ inflight = 1 /\ inflight' = 0 /\ fault = "none"
           /\ TempHumGood
           /\ (PressureContributes =>
                 pressure_state.state = "num" /\ PressureInRange(pressure_state))
           => attr_available' /\ outcome' = "Published")]_vars

C8_Witness ==
    /\ Done /\ outcome = "Published" /\ attr_available
    /\ last_error = "UnexpectedFault" /\ subscribed

\* C9: every delivered change event causes exactly one evaluation: the
\* evaluations completed, under way and waiting are the events delivered
\* plus the initial evaluation of async_added_to_hass.
C9_OneEvaluationPerEvent ==
    evaluations + inflight + pending
      = delivered + (IF phase = "constructed" THEN 0 ELSE 1)

C9_Witness == pending = 2 /\ delivered = 2

C11_ValueIffAvailable ==
    Done =>
      /\ (~IsNone(attr_native_value) <=> attr_available)
      /\ ("comfort_level" \in extra_state_attributes.keys
            <=> ~IsNone(attr_native_value))
      /\ ("comfort_description" \in extra_state_attributes.keys
            <=> ~IsNone(attr_native_value))
      /\ (~IsNone(extra_state_attributes.comfort_level)
            <=> ~IsNone(attr_native_value))
      /\ (~attr_available =>
            /\ IsNone(attr_native_value)
            /\ IsNone(extra_state_attributes.comfort_level))

\* A temperature reading in state unavailable, evaluated after an evaluation
\* that published a value.
C11_Witness ==
    /\ Done /\ evaluations >= 2 /\ temp_state = Text("unavailable")
    /\ last_error = "SourceUnavailable" /\ outcome = "SourceUnavailable"
    /\ ~attr_available /\ IsNone(attr_native_value)
    /\ "comfort_level" \notin extra_state_attributes.keys

The_Levels ==
    {"cold", "comfortable", "slightly_uncomfortable", "very_uncomfortable",
     "dangerous"}

\* get_comfort_level was applied to the humidex h (in tenths) and returned.
Classified(h) ==
    call.fn = "get_comfort_level" /\ call.humidex = h /\ ~IsNone(ret)

\* C12: the classification of a humidex is one of the five levels, and it is
\* Cold exactly below 20, Comfortable exactly from 20 to 29 inclusive,
\* SlightlyUncomfortable exactly above 29 up to 39 inclusive,
\* VeryUncomfortable exactly above 39 up to 45 inclusive, Dangerous exactly
\* above 45.
C12_ClassifyTable ==
    \A h \in -MaxTenths..MaxTenths :
      Classified(h) =>
        LET level == Get(ret) IN
        /\ level \in The_Levels
        /\ (level = "cold" <=> h < 200)
        /\ (level = "comfortable" <=> 200 <= h /\ h <= 290)
        /\ (level = "slightly_uncomfortable" <=> 290 < h /\ h <= 390)
        /\ (level = "very_uncomfortable" <=> 390 < h /\ h <= 450)
        /\ (level = "dangerous" <=> 450 < h)

C12_Witness == Classified(451) /\ ret = Some("dangerous")

\* C13 as stated: each of the boundary values 20, 29, 39 and 45 is classified
\* into the lower of the two bands that meet there: 20 Cold, 29 Comfortable,
\* 39 SlightlyUncomfortable, 45 VeryUncomfortable.
C13_BoundariesInLowerBand ==
    /\ Classified(200) => ret = Some("cold")
    /\ Classified(290) => ret = Some("comfortable")
    /\ Classified(390) => ret = Some("slightly_uncomfortable")
    /\ Classified(450) => ret = Some("very_uncomfortable")

\* C13 amended: 29, 39 and 45 are classified into the lower of the two bands
\* that meet there (Comfortable, SlightlyUncomfortable, VeryUncomfortable),
\* and 20 into the upper one: 20 is Comfortable, not Cold.
C13_BoundariesAsCoded ==
    /\ Classified(200) => ret = Some("comfortable")
    /\ Classified(290) => ret = Some("comfortable")
    /\ Classified(390) => ret = Some("slightly_uncomfortable")
    /\ Classified(450) => ret = Some("very_uncomfortable")

C13_Witness == Classified(200) /\ ret = Some("comfortable")

\* Scenario A: no pressure source is bound and the evaluation fetched
\* 30 degrees Celsius and 60 %.
ScenarioA ==
    Done /\ ~Bound /\ temp_state = Num(30, "C") /\ humidity_state = Num(60, "%")

\* C14 as stated: Scenario A uses the Standard method and publishes a
\* humidex of about 39.1 (within a tenth of it) whose comfort level is
\* SlightlyUncomfortable.
C14_ScenarioA_SlightlyUncomfortable ==
    ScenarioA =>
      /\ calculation_method = "standard"
      /\ attr_available
      /\ \E v \in 390..392 : attr_native_value = Some(v)
      /\ extra_state_attributes.comfort_level = Some("slightly_uncomfortable")

\* C14 amended: Scenario A uses the Standard method and publishes a humidex
\* of 39.3, which is above 39: its comfort level is VeryUncomfortable.
C14_ScenarioA_VeryUncomfortable ==
    ScenarioA =>
      /\ calculation_method = "standard"
      /\ extra_state_attributes.calculation_method = "standard"
      /\ attr_available
      /\ attr_native_value = Some(393)
      /\ extra_state_attributes.comfort_level = Some("very_uncomfortable")

C14_Witness == ScenarioA /\ outcome = "Published" /\ attr_native_value = Some(393)

\* The configurations that were accepted: an entry was created with them.
Accepted == {Get(e) : e \in {entry_data, entry_options} \ {None}}

\* The ids a configuration names.
NamedIds(config) ==
    {config.temperature_entity, config.humidity_entity}
      \cup (IF config.pressure_entity # "" THEN {config.pressure_entity} ELSE {})

\* C15: a configuration is accepted, by the user step or by the options
\* step, only if every id it names resolves to an existing reading whose
\* state is numeric.
C15_AcceptedOnlyIfNumeric ==
    \A config \in Accepted : \A id \in NamedIds(config) : Usable(states[id])

\* The conversion was applied to v degrees declared in unit u and returned.
Converted(v, u) ==
    /\ call.fn = "convert_temperature_to_celsius"
    /\ call.temperature = v /\ call.unit = u /\ ~IsNone(ret)

\* An evaluation ran on a temperature reading of v degrees declared in unit
\* u (humidity 60 %, no pressure) and returned.
Evaluated(v, u) ==
    call.fn = "update_humidex" /\ call.ts = Num(v, u) /\ ~IsNone(ret)

\* Fahrenheit temperatures and the whole Celsius degrees they equal.
FahrenheitCelsius ==
    {<<-58, -50>>, <<-40, -40>>, <<32, 0>>, <<86, 30>>, <<158, 70>>, <<212, 100>>}

\* C16: the conversion changes Fahrenheit readings only, to (F - 32) * 5/9
\* (32 gives 0, 212 gives 100), and returns a reading declared in Celsius,
\* in another unit or in no unit unchanged; range validation and the
\* calculation use the converted value: an evaluation of a Fahrenheit
\* reading ends as the evaluation of the Celsius reading it equals, and an
\* evaluation of a reading in any other or no unit ends as that of the same
\* number in Celsius.
C16_OnlyFahrenheitConverted ==
    /\ \A v \in ConvertInputs : \A u \in Units :
         Converted(v, u) =>
           IF u = "F"
           THEN /\ 9 * Get(ret) - 5 * (v - 32) * Q4 < 9
                /\ 5 * (v - 32) * Q4 - 9 * Get(ret) < 9
           ELSE Get(ret) = v * Q4
    /\ Converted(32, "F") => ret = Some(0)
    /\ Converted(212, "F") => ret = Some(100 * Q4)
    /\ \A v \in ConvertInputs : \A u \in Units :
         Evaluated(v, u) =>
           /\ Get(ret).available <=> TempInRange(call.ts)
           /\ u # "F" =>
                ret = Some(update_humidex(Num(v, "C"), call.hs, call.ps, "none"))
           /\ \A fc \in FahrenheitCelsius :
                u = "F" /\ v = fc[1] =>
                  ret = Some(update_humidex(Num(fc[2], "C"), call.hs, call.ps, "none"))
    /\ Evaluated(86, "F") => Get(ret).value = Some(393)
    /\ Evaluated(30, "K") => Get(ret).value = Some(393)
    /\ Evaluated(30, "") => Get(ret).value = Some(393)

C16_Witness == Converted(212, "F") /\ ret = Some(100 * Q4)

\* C17: an evaluation that fetched the states the evaluation before it
\* fetched leaves the result that evaluation left: the same available flag,
\* humidex, method, outcome and published attributes, whatever the
\* evaluations before them gave.
C17_Idempotent ==
    [][/\ inflight > 0 /\ inflight' < inflight
       /\ evaluations > 0 /\ same_inputs
       => /\ attr_available' = attr_available
          /\ attr_native_value' = attr_native_value
          /\ calculation_method' = calculation_method
          /\ outcome' = outcome
          /\ extra_state_attributes' = extra_state_attributes]_vars

\* Three evaluations: the first found no source, the second and the third
\* fetched the same readings and published.
C17_Witness ==
    /\ Done /\ evaluations = 3 /\ same_inputs
    /\ last_error = "MissingSource" /\ attr_available

\* C18: no step of an evaluation, whatever its outcome, changes a source
\* reading or the binding (the temperature, humidity and pressure ids); the
\* step that ends it leaves the subscription, the phase and the stored
\* configuration alone as well: it writes the value and the availability.
C18_EvaluationFrame ==
    [][/\ (inflight' # inflight => states' = states /\ binding' = binding)
       /\ (inflight' < inflight =>
             /\ subscribed' = subscribed /\ phase' = phase
             /\ entry_data' = entry_data /\ entry_options' = entry_options)]_vars

\* An evaluation dropped an unavailable pressure reading and published: the
\* pressure id is still bound and the reading is as the host left it.
C18_Witness ==
    /\ Done /\ pressure_state = Text("unavailable") /\ outcome = "Published"
    /\ binding.pressure_id = "pres" /\ states["pres"] = Text("unavailable")

\* The entity is subscribed, every task the listener created has run and no
\* evaluation is under way.
Quiescent == phase = "added" /\ pending = 0 /\ inflight = 0

\* What the evaluation yields for the readings the bound sources have now.
CurrentResult ==
    update_humidex(states[binding.temperature_id], states[binding.humidity_id],
                   IF Bound THEN states[binding.pressure_id] ELSE Missing, "none")

\* C19: once every evaluation scheduled by a change event has run, the
\* published result is the one the evaluation yields for the current
\* readings of the bound sources, in whatever order the changes were made
\* and their events delivered.
C19_ConsistentWhenQuiescent ==
    Quiescent =>
      /\ attr_native_value = CurrentResult.value
      /\ attr_available = CurrentResult.available
      /\ calculation_method = CurrentResult.method
      /\ outcome = CurrentResult.outcome

\* Two change events were delivered, both evaluations ran, and the result
\* is that of the readings as they are now.
C19_Witness ==
    /\ Quiescent /\ delivered = 2 /\ evaluations = 3 /\ attr_available
    /\ states["temp"] = Num(86, "F") /\ states["hum"] = Num(100, "%")

C21_TeardownTerminal ==
    [][phase = "removed" =>
         /\ inflight' = inflight
         /\ evaluations' = evaluations
         /\ attr_native_value' = attr_native_value
         /\ attr_available' = attr_available]_vars

\* The fixed English string of a comfort level.
English(level) ==
    CASE level = "cold" -> "Cold"
      [] level = "comfortable" -> "Comfortable"
      [] level = "slightly_uncomfortable" -> "Slightly uncomfortable"
      [] level = "very_uncomfortable" -> "Very uncomfortable"
      [] level = "dangerous" -> "Dangerous"

\* The cached table holds a non-empty entry for the level.
HasTranslation(level) ==
    /\ ~IsNone(translations)
    /\ level \in DOMAIN Get(translations)
    /\ Get(translations)[level] # ""

\* The description published with a value is the cached entry of the
\* value's level when there is a non-empty one, else the English string.
DescriptionAsCached ==
    ~IsNone(attr_native_value) =>
      LET level == get_comfort_level(Get(attr_native_value))
          description == extra_state_attributes.comfort_description
      IN  IF HasTranslation(level)
          THEN description = Some(Get(translations)[level])
          ELSE description = Some(English(level))

\* C22: the comfort description published with a value is the cached
\* localized string for the value's comfort level when the translation
\* table holds a non-empty entry for that level, and otherwise the fixed
\* English string for that level; the table is fetched at most once, and
\* once fetched it never changes, whatever the host's catalog becomes.
C22_DescriptionAndCache ==
    [][/\ DescriptionAsCached
       /\ DescriptionAsCached'
       /\ fetches' <= 1
       /\ (fetches' = 1 <=> ~IsNone(translations'))
       /\ (~IsNone(translations) => translations' = translations)]_vars

\* A value is published with the cached French description of its level
\* after the host's catalog was replaced by another.
C22_Witness ==
    /\ Done /\ attr_native_value = Some(393) /\ fetches = 1
    /\ extra_state_attributes.comfort_description = Some("Tres inconfortable")
    /\ hass_translations # Get(translations)
====
